---- MODULE Spec2Model ----
(***************************************************************************)
(* Model of the research-synthesis agent: the LangGraph pipeline           *)
(* Planner -> Worker -> Synthesizer -> Critic (with the Critic -> Planner  *)
(* loop), the Run task that drives it (_run_research_agent for the local   *)
(* queue backend, run_research_task for the Celery/Redis backend), the     *)
(* task registry _tasks and the SSE listener that schedules its removal.   *)
(***************************************************************************)
EXTENDS Integers, Sequences, FiniteSets, Bags, TLC

(* ------------------------------ bounds --------------------------------- *)
\* largest request.max_iterations explored (the schema allows 1..10)
MaxIterBound == 2
\* largest number of sub-queries in a plan returned by the planner model
MaxPlanLen == 2
\* largest number of text increments streamed by the generation backend
MaxTokens == 1
\* largest number of documents the adapters return during one Run
MaxDocs == 2
\* number of retrieval units in the merge-order specification
MergeUnits == 3
\* elements of a list, tuple or dict handed to the checkpoint serializer
MaxSerdeItems == 2
\* pings one SSE endpoint sends during a Run
MaxPings == 1

(* --------------------------- program constants ------------------------- *)
Modes == {"research", "quick"}

\* the source_type the planner model gives the k-th sub-query of a plan;
\* "blog" stands for any value outside SOURCE_TOOL_MAP
PlanSourceType(k) ==
    CASE k % 3 = 1 -> "academic"
      [] k % 3 = 2 -> "blog"
      [] OTHER     -> "general"

SOURCE_TOOL_MAP(source_type) ==
    CASE source_type = "academic"  -> <<"arxiv_search", "serpapi_search">>
      [] source_type = "news"      -> <<"tavily_search", "serpapi_search">>
      [] source_type = "reference" -> <<"wikipedia_search", "serpapi_search">>
      [] source_type = "general"   -> <<"serpapi_search", "tavily_search">>
      [] OTHER                     -> <<"serpapi_search", "tavily_search">>

\* the source_type each adapter writes into the records it returns
ToolSourceType(tool) ==
    CASE tool = "arxiv_search"     -> "academic"
      [] tool = "tavily_search"    -> "news"
      [] tool = "wikipedia_search" -> "reference"
      [] OTHER                     -> "general"

\* credibility in hundredths
_estimate_credibility(source_type) ==
    CASE source_type = "academic"  -> 85
      [] source_type = "reference" -> 75
      [] source_type = "news"      -> 60
      [] source_type = "general"   -> 50
      [] OTHER                     -> 50

\* the fixed report of the synthesizer's empty-collection short circuit
NoDocsReport == << <<0, 0>> >>

(* ------------------------------ state ---------------------------------- *)
VARIABLES
    deploy,          \* which entry point drives the Run
    mode,            \* request.mode
    max_iterations,  \* state["max_iterations"]
    pc,              \* position of the Run task
    plan,            \* state["plan"]
    documents,       \* state["documents"] (operator.add reducer)
    draft,           \* state["draft"], a sequence of text increments
    critique,        \* state["critique"]: NoCritique or a Critique record
    iteration,       \* state["iteration"]
    final_report,    \* state["final_report"], <<>> is the empty string
    widx,            \* worker_node: loop index i (1-based)
    wpc,             \* worker_node: position inside the loop body
    raw_results,     \* worker_node: raw_results of the current sub-query
    all_documents,   \* worker_node: all_documents
    calls,           \* per sub-query of this pass: adapter invocations
    completedUnits,  \* sub-queries of this pass that reported completion
    emitted,         \* every item put on the queue / published, in order
    registered,      \* task_id in _tasks
    status,          \* last value written to _tasks[task_id]["status"]
    listener,        \* SSE event_generator: "none", "open", "closed"
    popScheduled,    \* call_later(300, pop) pending
    exc,             \* the exception that ended the Run's try block
    chunks,          \* text increments streamed so far by the chat reply
    streamLen,       \* increments the generation backend streams per call
    database_url,    \* settings.database_url is set
    report_stored,   \* the Run's report is in memory_store and _report_cache
    stages,          \* graph nodes executed so far, in order
    munits,          \* merge specification: per-unit document lists
    morder,          \* merge specification: completion order still to run
    macc,            \* merge specification: all_documents so far
    conflicts,       \* state["conflicts"]
    ckptLog,         \* checkpoints committed for the thread, in order
    lastCkpt,        \* channel values of the last committed checkpoint
    sobj,            \* serializer: the object handed to dumps_typed
    sdata,           \* serializer: the typed pair dumps_typed returned
    sloaded,         \* serializer: what loads_typed returned
    user_message,    \* classifier: the kind of text the query is
    clsBackend,      \* classifier: what the model call does when invoked
    clsCalls,        \* classifier: model calls made
    classified,      \* classifier: the intent returned, "none" before
    metaSet,         \* Redis: the task's meta key is written
    cstate,          \* SSE endpoint: "idle", "lookup", "streaming", "ended"
    attempts,        \* SSE endpoint: meta look-ups made
    qpos,            \* SSE endpoint: items of emitted it is past
    delivered,       \* SSE endpoint: what it has yielded to the client
    thread2,         \* second Run: "same" or "other" thread_id
    pc2,             \* second Run: position
    documents2       \* second Run: state["documents"]

envVars == <<streamLen, database_url, report_stored>>
runVars == <<deploy, mode, max_iterations, pc, plan, documents, draft,
             critique, iteration, final_report, widx, wpc, raw_results,
             all_documents, calls, completedUnits, emitted, status, exc,
             chunks, stages>>
listenerVars == <<registered, listener, popScheduled>>
mergeVars == <<munits, morder, macc>>
ckptVars == <<ckptLog, lastCkpt>>
serdeVars == <<sobj, sdata, sloaded>>
intentVars == <<user_message, clsBackend, clsCalls, classified>>
deliveryVars == <<metaSet, cstate, attempts, qpos, delivered>>
run2Vars == <<thread2, pc2, documents2>>
sideVars == <<intentVars, deliveryVars, run2Vars>>
vars == <<runVars, conflicts, ckptVars, listenerVars, mergeVars, serdeVars,
         sideVars, envVars>>

Ev(type, tag, info) == [type |-> type, tag |-> tag, info |-> info]
NoneSentinel == Ev("None", "", "")

\* nodes read send_event = state.get("_send_event"); only the backend/app
\* entry point puts the callback into the state
SendEventInState == deploy = "backend_app"

StageEvents(evs) == IF SendEventInState THEN evs ELSE <<>>

LocalBackend == deploy \in {"backend_app", "api"}

\* adapter invocations of one sub-query, and whether its primary came back empty
NoCalls == [primary |-> 0, fallback |-> 0, primaryEmpty |-> FALSE]

\* "critique": None of the initial state
NoCritique ==
    [present |-> FALSE, needs_refinement |-> FALSE, overall_score |-> 0]

\* the channel values a checkpoint of the thread holds; step names the graph
\* step whose end the checkpoint records ("none": nothing committed yet)
Checkpoint(step, p, docs, d, c, cr, it, fr) ==
    [step |-> step, plan |-> p, documents |-> docs, draft |-> d,
     conflicts |-> c, critique |-> cr, iteration |-> it, final_report |-> fr]

NoCheckpoint == Checkpoint("none", <<>>, <<>>, <<>>, <<>>, NoCritique, 0, <<>>)

\* faulty variant: the commit is recorded ahead of the earlier ones
CommitOutOfOrder(step) ==
    /\ ckptLog' = <<step>> \o ckptLog
    /\ lastCkpt' = Checkpoint(step, plan', documents', draft', conflicts',
                              critique', iteration', final_report')

\* graph.compile(checkpointer=checkpointer): the values of the channels are
\* committed for the thread_id when a graph step has ended
Commit(step) ==
    /\ ckptLog' = Append(ckptLog, step)
    /\ lastCkpt' = Checkpoint(step, plan', documents', draft', conflicts',
                              critique', iteration', final_report')

\* faulty variant: what the failing node had gathered is committed
FailedStageCommitsPartial ==
    /\ UNCHANGED conflicts
    /\ ckptLog' = Append(ckptLog, "partial")
    /\ lastCkpt' = Checkpoint("partial", plan, documents \o all_documents,
                              draft, conflicts, critique, iteration,
                              final_report)

\* a node that raises returns nothing: no channel is written and nothing
\* is committed
FailedStageCommit == UNCHANGED <<conflicts, ckptVars>>

(* ------------------------ values the serializer sees ------------------- *)
\* a Python value: kind is "none", "callable", "scalar", "object" (a dataclass
\* instance), "list", "tuple" or "dict"; val identifies a scalar or an
\* object; items holds the elements of a list or tuple and the <<key, value>>
\* pairs of a dict
Py(kind, val, items) == [kind |-> kind, val |-> val, items |-> items]
PyNone == Py("none", 0, <<>>)
PyCallable == Py("callable", 0, <<>>)

\* the (type, bytes) pair of dumps_typed; "none": nothing dumped yet
NoData == [type |-> "none", bytes |-> <<>>]

(* ------------------------------ Init ----------------------------------- *)
InitMerge ==
    /\ munits = <<>>
    /\ morder = <<>>
    /\ macc = <<>>

\* the parts of the state that only the specifications of the classifier,
\* of the SSE endpoint and of a second Run move
InitIntent ==
    /\ user_message = "other"
    /\ clsBackend = "research"
    /\ clsCalls = 0
    /\ classified = "none"

InitDelivery ==
    /\ metaSet = FALSE
    /\ cstate = "idle"
    /\ attempts = 0
    /\ qpos = 0
    /\ delivered = <<>>

InitRun2 ==
    /\ thread2 = "other"
    /\ pc2 = "start"
    /\ documents2 = <<>>

InitSide == InitIntent /\ InitDelivery /\ InitRun2

InitSerde ==
    /\ sobj = PyNone
    /\ sdata = NoData
    /\ sloaded = Py("unset", 0, <<>>)

InitRun(deployments) ==
    /\ deploy \in deployments
    /\ mode \in (IF deploy = "backend_app" THEN {"research"} ELSE Modes)
    /\ max_iterations \in 1..MaxIterBound
    /\ pc = "start"
    /\ plan = <<>>
    /\ documents = <<>>
    /\ draft = <<>>
    /\ critique = NoCritique
    /\ iteration = 0
    /\ final_report = <<>>
    /\ widx = 0
    /\ wpc = "idle"
    /\ raw_results = <<>>
    /\ all_documents = <<>>
    /\ calls = <<>>
    /\ completedUnits = {}
    /\ emitted = <<>>
    /\ registered = LocalBackend
    /\ status = IF LocalBackend THEN "running" ELSE "none"
    /\ listener = "none"
    /\ popScheduled = FALSE
    /\ exc = "none"
    /\ chunks = 0
    /\ streamLen \in 0..MaxTokens
    /\ database_url \in BOOLEAN
    /\ report_stored = FALSE
    /\ stages = <<>>
    /\ conflicts = <<>>
    /\ ckptLog = <<>>
    /\ lastCkpt = NoCheckpoint

\* the current entry points: api/routes.py and worker/tasks.py
Init == InitRun({"api", "celery"}) /\ InitMerge /\ InitSerde /\ InitSide

\* the older entry point kept under backend/app
InitLegacy ==
    /\ InitRun({"backend_app"}) /\ InitMerge /\ InitSerde /\ InitSide
    /\ database_url = TRUE

(* ------------------------- failure of the Run -------------------------- *)
\* What the Run task does when its try block raises e after emitting pre:
\* local backend: the except clause puts the error event, writes status
\* "failed" (a KeyError when the registry entry is gone) and the finally
\* clause puts the None sentinel; Celery backend: run_research_task
\* publishes the error event.
ErrorEvent(e) == Ev("error", "agent_error", e)

\* faulty variant: the Run ends without closing its queue
FinallyClauseMissing == <<>>

\* `finally: await queue.put(None)`
FinallyClause == <<NoneSentinel>>

Fail(e, pre) ==
    /\ exc' = e
    /\ pc' = "terminated"
    /\ emitted' = IF LocalBackend
                  THEN emitted \o pre \o <<ErrorEvent(e)>> \o FinallyClause
                  ELSE emitted \o pre \o <<ErrorEvent(e)>>
    /\ status' = IF LocalBackend /\ registered THEN "failed" ELSE status

\* the values of exc that stand for an exception raised inside a graph node
NodeExceptions ==
    {"planner", "planner_shape", "AttributeError", "synthesizer", "critic",
     "extract_conflicts", "critic_data_get"}

(* ----------------------------- Run start ------------------------------- *)
\* mode == "quick": simple chat only
StartQuick ==
    /\ pc = "start" /\ deploy # "backend_app" /\ mode = "quick"
    /\ pc' = "chat"
    /\ chunks' = 0
    /\ UNCHANGED <<deploy, mode, max_iterations, plan, documents, draft,
                   critique, iteration, final_report, widx, wpc, raw_results,
                   all_documents, calls, completedUnits, emitted, status,
                   exc, stages, listenerVars, mergeVars, envVars,
                   serdeVars, sideVars>>
    /\ UNCHANGED <<conflicts, ckptVars>>

\* mode == "research": intent check, then chat or the full pipeline
StartResearch(intent) ==
    /\ pc = "start" /\ deploy # "backend_app" /\ mode = "research"
    /\ pc' = IF intent = "chat" THEN "chat" ELSE "setup"
    /\ chunks' = 0
    /\ UNCHANGED <<deploy, mode, max_iterations, plan, documents, draft,
                   critique, iteration, final_report, widx, wpc, raw_results,
                   all_documents, calls, completedUnits, emitted, status,
                   exc, stages, listenerVars, mergeVars, envVars,
                   serdeVars, sideVars>>
    /\ UNCHANGED <<conflicts, ckptVars>>

\* backend/app has no mode: every Run is a pipeline Run
StartBackendApp ==
    /\ pc = "start" /\ deploy = "backend_app"
    /\ pc' = "setup"
    /\ UNCHANGED <<deploy, mode, max_iterations, plan, documents, draft,
                   critique, iteration, final_report, widx, wpc, raw_results,
                   all_documents, calls, completedUnits, emitted, status,
                   exc, chunks, stages, listenerVars, mergeVars,
                   envVars, serdeVars, sideVars>>
    /\ UNCHANGED <<conflicts, ckptVars>>

(* --------------------------- simple chat ------------------------------- *)
ChatChunk ==
    /\ pc = "chat" /\ chunks < streamLen
    /\ chunks' = chunks + 1
    /\ emitted' = emitted \o <<Ev("answer", "", "")>>
    /\ UNCHANGED <<deploy, mode, max_iterations, pc, plan, documents, draft,
                   critique, iteration, final_report, widx, wpc, raw_results,
                   all_documents, calls, completedUnits, status, exc, stages,
                   listenerVars, mergeVars, envVars, serdeVars, sideVars>>
    /\ UNCHANGED <<conflicts, ckptVars>>

\* the generation backend raises while streaming
ChatRaise ==
    /\ pc = "chat"
    /\ Fail("chat", <<>>)
    /\ UNCHANGED <<deploy, mode, max_iterations, plan, documents, draft,
                   critique, iteration, final_report, widx, wpc, raw_results,
                   all_documents, calls, completedUnits, chunks, stages,
                   listenerVars, mergeVars, envVars, serdeVars, sideVars>>
    /\ UNCHANGED <<conflicts, ckptVars>>

\* What follows the `done` event of a Run. Local backend: the status write
\* _tasks[task_id]["status"] = "completed"; with the entry present the
\* sentinel follows, with the entry popped the write raises KeyError and
\* the except / finally clauses run. Celery backend: nothing follows.
Complete(sentinels) ==
    /\ pc' = "terminated"
    /\ IF ~LocalBackend
       THEN /\ emitted' = emitted \o <<Ev("done", "", "")>>
            /\ UNCHANGED <<status, exc>>
       ELSE IF registered
       THEN /\ emitted' = emitted \o <<Ev("done", "", "")>> \o sentinels
            /\ status' = "completed"
            /\ UNCHANGED exc
       ELSE /\ emitted' = emitted \o <<Ev("done", "", ""),
                                       ErrorEvent("KeyError")>> \o FinallyClause
            /\ exc' = "KeyError"
            /\ UNCHANGED status

\* the stream ends: `done`, status, the early return's queue.put(None) and
\* the finally clause's queue.put(None)
ChatDone ==
    /\ pc = "chat" /\ chunks = streamLen
    /\ Complete(<<NoneSentinel>> \o FinallyClause)
    /\ UNCHANGED <<deploy, mode, max_iterations, plan, documents, draft,
                   critique, iteration, final_report, widx, wpc, raw_results,
                   all_documents, calls, completedUnits, chunks, stages,
                   listenerVars, mergeVars, envVars, serdeVars, sideVars>>
    /\ UNCHANGED <<conflicts, ckptVars>>

(* ------------------------------ graph edges --------------------------- *)
\* build_graph: entry point and the unconditional edges
EntryPoint == "planner"

\* faulty variant: the planner's edge goes to the synthesizer
SkipWorkerEdge(node) ==
    CASE node = "planner"     -> "synthesizer"
      [] node = "worker"      -> "synthesizer"
      [] node = "synthesizer" -> "critic"

NextNode(node) ==
    CASE node = "planner"     -> "worker"
      [] node = "worker"      -> "synthesizer"
      [] node = "synthesizer" -> "critic"

(* ------------------------ checkpointer set-up -------------------------- *)
\* get_checkpointer: `if not settings.database_url: raise ValueError`; the
\* entry point under backend/app opens its sqlite file instead
CheckpointConfigured == deploy = "backend_app" \/ database_url

SetupOk ==
    /\ pc = "setup" /\ CheckpointConfigured
    /\ pc' = EntryPoint
    /\ UNCHANGED <<deploy, mode, max_iterations, plan, documents, draft,
                   critique, iteration, final_report, widx, wpc, raw_results,
                   all_documents, calls, completedUnits, emitted, status,
                   exc, chunks, stages, listenerVars, mergeVars,
                   envVars, serdeVars, sideVars>>
    /\ UNCHANGED conflicts
    /\ Commit("__start__")

SetupRaise ==
    /\ pc = "setup"
    /\ Fail("checkpointer", <<>>)
    /\ UNCHANGED <<deploy, mode, max_iterations, plan, documents, draft,
                   critique, iteration, final_report, widx, wpc, raw_results,
                   all_documents, calls, completedUnits, chunks, stages,
                   listenerVars, mergeVars, envVars, serdeVars, sideVars>>
    /\ UNCHANGED <<conflicts, ckptVars>>

(* ------------------------------ Planner -------------------------------- *)
SubQuery(query, source_type) == [query |-> query, source_type |-> source_type]

\* the plans the planner model answers with: a list of 0..MaxPlanLen
\* records; the k-th sub-query's text is named k
PlanOf(n) == [k \in 1..n |-> SubQuery(k, PlanSourceType(k))]

\* json.JSONDecodeError: the single sub-query echoing the raw query (named 0)
FallbackPlan == <<SubQuery(0, "general")>>

\* faulty variant: the planner does not count its execution
PlannerReturnKeepsIteration(sub_queries) ==
    /\ plan' = sub_queries
    /\ iteration' = iteration

\* return {"plan": sub_queries, "iteration": iteration + 1}
PlannerReturn(sub_queries) ==
    /\ plan' = sub_queries
    /\ iteration' = iteration + 1

planner_node(sub_queries) ==
    /\ pc = "planner"
    /\ PlannerReturn(sub_queries)
    /\ emitted' = emitted \o StageEvents(<<Ev("steps", "plan", "PENDING")>>)
    /\ stages' = Append(stages, "planner")
    /\ pc' = NextNode("planner")
    /\ UNCHANGED <<deploy, mode, max_iterations, documents, draft, critique,
                   final_report, widx, wpc, raw_results, all_documents, calls,
                   completedUnits, status, exc, chunks, listenerVars,
                   mergeVars, envVars, serdeVars, sideVars>>
    /\ UNCHANGED conflicts
    /\ Commit("planner")

PlannerOk == \E n \in 0..MaxPlanLen : planner_node(PlanOf(n))

PlannerParseFallback == planner_node(FallbackPlan)

\* the model call raises
PlannerRaise ==
    /\ pc = "planner"
    /\ Fail("planner", <<>>)
    /\ stages' = Append(stages, "planner")
    /\ UNCHANGED <<deploy, mode, max_iterations, plan, documents, draft,
                   critique, iteration, final_report, widx, wpc, raw_results,
                   all_documents, calls, completedUnits, chunks, listenerVars,
                   mergeVars, envVars, serdeVars, sideVars>>
    /\ FailedStageCommit

\* model answers that json.loads accepts but that are not lists of objects:
\* an object (the loop runs over its keys), a list of scalars, a scalar;
\* p.get(...) raises AttributeError, the loop over a scalar TypeError
PlannerWrongShapeResponses == {"json_object", "json_scalar_list", "json_scalar"}

PlannerShapeRaise ==
    /\ pc = "planner"
    /\ \E response \in PlannerWrongShapeResponses : Fail("planner_shape", <<>>)
    /\ stages' = Append(stages, "planner")
    /\ UNCHANGED <<deploy, mode, max_iterations, plan, documents, draft,
                   critique, iteration, final_report, widx, wpc, raw_results,
                   all_documents, calls, completedUnits, chunks, listenerVars,
                   mergeVars, envVars, serdeVars, sideVars>>
    /\ FailedStageCommit

(* ------------------------------- Worker -------------------------------- *)
\* what tool.ainvoke can do: raise, return a non-list, an empty list, a list
\* of result records, or a list whose items are not dicts
ToolOutcomes == {"raise", "nonlist", "empty", "records", "junk"}

\* the adapters stop returning records once MaxDocs were retrieved
OutcomesNow ==
    IF Len(documents) + Len(all_documents) < MaxDocs
    THEN ToolOutcomes
    ELSE ToolOutcomes \ {"records"}

RawRecord(tool, query) ==
    [isdict |-> TRUE, title |-> query, source |-> tool,
     source_type |-> ToolSourceType(tool)]

JunkItem == [isdict |-> FALSE, title |-> 0, source |-> "", source_type |-> ""]

_execute_tool(tool, query, outcome) ==
    CASE outcome = "records" -> <<RawRecord(tool, query)>>
      [] outcome = "junk"    -> <<JunkItem>>
      [] outcome = "empty"   -> <<>>
      [] outcome = "nonlist" -> <<>>
      [] outcome = "raise"   -> <<>>

\* faulty variant: the score is taken from the category the sub-query asked
\* for (sub-query k asks for PlanSourceType(k), the fallback plan's
\* sub-query 0 for "general")
RetrievedDocumentByRequest(r) ==
    [title |-> r.title, source |-> r.source, source_type |-> r.source_type,
     credibility_score |->
        _estimate_credibility(IF r.title = 0 THEN "general"
                              ELSE PlanSourceType(r.title))]

RetrievedDocument(r) ==
    [title |-> r.title, source |-> r.source, source_type |-> r.source_type,
     credibility_score |-> _estimate_credibility(r.source_type)]

\* faulty variant: the unit's list replaces the accumulator
ExtendReplaces(acc, docs) == docs

\* all_documents.extend(documents)
Extend(acc, docs) == acc \o docs

\* faulty variant: the plain (overwriting) channel instead of the add reducer
DocumentsOverwrite(old, new) == new

\* documents: Annotated[list, operator.add]
DocumentsReducer(old, new) == old \o new

PrimaryTool(sub_query) == SOURCE_TOOL_MAP(sub_query.source_type)[1]
FallbackTool(sub_query) == SOURCE_TOOL_MAP(sub_query.source_type)[2]

\* faulty variant: the fallback branch is never taken
NeedsFallbackNever(raw) == FALSE

\* `if not raw_results and fallback_tool`
NeedsFallback(raw) == raw = <<>>

WorkerStart ==
    /\ pc = "worker" /\ wpc = "idle"
    /\ widx' = 1
    /\ all_documents' = <<>>
    /\ raw_results' = <<>>
    /\ calls' = [k \in 1..Len(plan) |-> NoCalls]
    /\ completedUnits' = {}
    /\ wpc' = IF Len(plan) = 0 THEN "return" ELSE "primary"
    /\ stages' = Append(stages, "worker")
    /\ UNCHANGED <<deploy, mode, max_iterations, pc, plan, documents, draft,
                   critique, iteration, final_report, emitted, status, exc,
                   chunks, listenerVars, mergeVars, envVars,
                   serdeVars, sideVars>>
    /\ UNCHANGED <<conflicts, ckptVars>>

WorkerPrimary(outcome) ==
    /\ pc = "worker" /\ wpc = "primary"
    /\ emitted' = emitted \o StageEvents(<<Ev("steps", "unit", "PENDING")>>)
    /\ raw_results' = _execute_tool(PrimaryTool(plan[widx]), plan[widx].query,
                                    outcome)
    /\ calls' = [calls EXCEPT ![widx].primary = @ + 1,
                             ![widx].primaryEmpty = (raw_results' = <<>>)]
    /\ wpc' = IF NeedsFallback(raw_results') THEN "fallback" ELSE "convert"
    /\ UNCHANGED <<deploy, mode, max_iterations, pc, plan, documents, draft,
                   critique, iteration, final_report, widx, all_documents,
                   completedUnits, status, exc, chunks, stages, listenerVars,
                   mergeVars, envVars, serdeVars, sideVars>>
    /\ UNCHANGED <<conflicts, ckptVars>>

WorkerFallback(outcome) ==
    /\ pc = "worker" /\ wpc = "fallback"
    /\ raw_results' = _execute_tool(FallbackTool(plan[widx]), plan[widx].query,
                                    outcome)
    /\ calls' = [calls EXCEPT ![widx].fallback = @ + 1]
    /\ wpc' = "convert"
    /\ UNCHANGED <<deploy, mode, max_iterations, pc, plan, documents, draft,
                   critique, iteration, final_report, widx, all_documents,
                   completedUnits, emitted, status, exc, chunks, stages,
                   listenerVars, mergeVars, envVars, serdeVars, sideVars>>
    /\ UNCHANGED <<conflicts, ckptVars>>

\* the list comprehension building RetrievedDocument objects: r.get raises
\* AttributeError on an item that is not a dict
ConvertRaises(raw) == \E k \in 1..Len(raw) : ~raw[k].isdict

WorkerConvert ==
    /\ pc = "worker" /\ wpc = "convert"
    /\ ~ConvertRaises(raw_results)
    /\ LET docs == [k \in 1..Len(raw_results) |->
                        RetrievedDocument(raw_results[k])]
       IN  /\ all_documents' = Extend(all_documents, docs)
           /\ emitted' = emitted \o
                  StageEvents(<<Ev("sources", "unit", ""),
                                Ev("steps", "unit", "COMPLETED")>>)
    /\ completedUnits' = completedUnits \cup {widx}
    /\ widx' = widx + 1
    /\ wpc' = IF widx = Len(plan) THEN "return" ELSE "primary"
    /\ UNCHANGED <<deploy, mode, max_iterations, pc, plan, documents, draft,
                   critique, iteration, final_report, raw_results, calls,
                   status, exc, chunks, stages, listenerVars, mergeVars,
                   envVars, serdeVars, sideVars>>
    /\ UNCHANGED <<conflicts, ckptVars>>

WorkerConvertRaise ==
    /\ pc = "worker" /\ wpc = "convert"
    /\ ConvertRaises(raw_results)
    /\ Fail("AttributeError", <<>>)
    /\ UNCHANGED <<deploy, mode, max_iterations, plan, documents, draft,
                   critique, iteration, final_report, widx, wpc, raw_results,
                   all_documents, calls, completedUnits, chunks, stages,
                   listenerVars, mergeVars, envVars, serdeVars, sideVars>>
    /\ FailedStageCommit

\* return {"documents": all_documents}, merged by the reducer
WorkerReturn ==
    /\ pc = "worker" /\ wpc = "return"
    /\ documents' = DocumentsReducer(documents, all_documents)
    /\ wpc' = "idle"
    /\ pc' = NextNode("worker")
    /\ widx' = 0
    /\ raw_results' = <<>>
    /\ all_documents' = <<>>
    /\ calls' = <<>>
    /\ completedUnits' = {}
    /\ UNCHANGED <<deploy, mode, max_iterations, plan, draft, critique,
                   iteration, final_report, emitted, status, exc, chunks,
                   stages, listenerVars, mergeVars, envVars,
                   serdeVars, sideVars>>
    /\ UNCHANGED conflicts
    /\ Commit("worker")

(* ----------------------------- Synthesizer ----------------------------- *)
\* the text increments of a generation of n tokens in this iteration
Tokens(n) == [k \in 1..n |-> <<iteration, k>>]

AnswerEvents(n) == [k \in 1..n |-> Ev("answer", "", "")]

\* `if not documents`: the fixed report, no generation
\* _extract_conflicts(full_draft): the Conflict records of the ```json block
\* the generated text ends with; a text without a parseable block, and the
\* empty text, give none
Conflict(a, b) == [source_a |-> a, source_b |-> b]

_extract_conflicts(full_draft) ==
    IF full_draft = <<>> THEN {<<>>} ELSE {<<>>, <<Conflict(1, 2)>>}

\* faulty variant: the empty collection is not tested for
NoDocumentsNever(docs) == FALSE

\* `if not documents`
NoDocuments(docs) == docs = <<>>

SynthNoDocs ==
    /\ pc = "synthesizer" /\ NoDocuments(documents)
    /\ draft' = NoDocsReport
    /\ emitted' = emitted \o StageEvents(<<Ev("answer", "", "")>>)
    /\ stages' = Append(stages, "synthesizer")
    /\ pc' = NextNode("synthesizer")
    /\ UNCHANGED <<deploy, mode, max_iterations, plan, documents, critique,
                   iteration, final_report, widx, wpc, raw_results,
                   all_documents, calls, completedUnits, status, exc, chunks,
                   listenerVars, mergeVars, envVars, serdeVars, sideVars>>
    /\ conflicts' = <<>>
    /\ Commit("synthesizer")

Synthesize(n) ==
    /\ pc = "synthesizer" /\ ~NoDocuments(documents) /\ n = streamLen
    /\ draft' = Tokens(n)
    /\ emitted' = emitted \o
           StageEvents(<<Ev("steps", "synthesis", "PENDING")>> \o
                       AnswerEvents(n) \o
                       <<Ev("steps", "synthesis", "COMPLETED")>>)
    /\ stages' = Append(stages, "synthesizer")
    /\ pc' = NextNode("synthesizer")
    /\ UNCHANGED <<deploy, mode, max_iterations, plan, documents, critique,
                   iteration, final_report, widx, wpc, raw_results,
                   all_documents, calls, completedUnits, status, exc, chunks,
                   listenerVars, mergeVars, envVars, serdeVars, sideVars>>
    /\ conflicts' \in _extract_conflicts(Tokens(n))
    /\ Commit("synthesizer")

\* the generation backend raises after n increments
SynthRaise(n) ==
    /\ pc = "synthesizer" /\ ~NoDocuments(documents) /\ n <= streamLen
    /\ Fail("synthesizer",
            StageEvents(<<Ev("steps", "synthesis", "PENDING")>> \o
                        AnswerEvents(n)))
    /\ stages' = Append(stages, "synthesizer")
    /\ UNCHANGED <<deploy, mode, max_iterations, plan, documents, draft,
                   critique, iteration, final_report, widx, wpc, raw_results,
                   all_documents, calls, completedUnits, chunks,
                   listenerVars, mergeVars, envVars, serdeVars, sideVars>>
    /\ FailedStageCommit

\* trailing ```json blocks that json.loads accepts but that are not an object
\* holding a list of conflict records: a list or scalar (data.get raises
\* AttributeError), "conflicts" holding a number or null (the loop raises
\* TypeError), or a list of scalars (c.get raises AttributeError); the
\* except clause names JSONDecodeError, IndexError and KeyError only
ConflictBlocksRaising ==
    {"json_list", "conflicts_number", "conflicts_null", "conflicts_scalars"}

SynthConflictRaise ==
    /\ pc = "synthesizer" /\ ~NoDocuments(documents) /\ streamLen > 0
    /\ \E block \in ConflictBlocksRaising :
          Fail("extract_conflicts",
               StageEvents(<<Ev("steps", "synthesis", "PENDING")>> \o
                           AnswerEvents(streamLen) \o
                           <<Ev("steps", "synthesis", "COMPLETED")>>))
    /\ stages' = Append(stages, "synthesizer")
    /\ UNCHANGED <<deploy, mode, max_iterations, plan, documents, draft,
                   critique, iteration, final_report, widx, wpc, raw_results,
                   all_documents, calls, completedUnits, chunks,
                   listenerVars, mergeVars, envVars, serdeVars, sideVars>>
    /\ FailedStageCommit

(* -------------------------------- Critic ------------------------------- *)
\* the parsed model answer: "nonjson" takes the accept-as-is default,
\* "missing" is an object without needs_refinement
CriticResponses == {"refine", "accept", "missing", "nonjson"}

ParsedNeedsRefinement(response) == response = "refine"

ParsedScore(response) ==
    CASE response = "refine" -> 40
      [] response = "accept" -> 90
      [] OTHER               -> 70

\* faulty variant: the cap test is left out
CapOverrideMissing(needs_refinement) == needs_refinement

\* `if iteration >= max_iterations: critique.needs_refinement = False`
CapOverride(needs_refinement) ==
    IF iteration >= max_iterations THEN FALSE ELSE needs_refinement

critic_node(response) ==
    /\ pc = "critic"
    /\ LET nr == CapOverride(ParsedNeedsRefinement(response))
       IN  /\ critique' = [present |-> TRUE, needs_refinement |-> nr,
                           overall_score |-> ParsedScore(response)]
           /\ final_report' = IF ~nr THEN draft ELSE final_report
           /\ emitted' = emitted \o
                  StageEvents(<<Ev("steps", "critique", "PENDING"),
                                Ev("steps", "critique",
                                   IF ~nr THEN "COMPLETED" ELSE "PENDING")>>)
    /\ stages' = Append(stages, "critic")
    /\ pc' = "route"
    /\ UNCHANGED <<deploy, mode, max_iterations, plan, documents, draft,
                   iteration, widx, wpc, raw_results, all_documents, calls,
                   completedUnits, status, exc, chunks, listenerVars,
                   mergeVars, envVars, serdeVars, sideVars>>
    /\ UNCHANGED conflicts
    /\ Commit("critic")

Critic == \E response \in CriticResponses : critic_node(response)

\* the model call raises
CriticRaise ==
    /\ pc = "critic"
    /\ Fail("critic", StageEvents(<<Ev("steps", "critique", "PENDING")>>))
    /\ stages' = Append(stages, "critic")
    /\ UNCHANGED <<deploy, mode, max_iterations, plan, documents, draft,
                   critique, iteration, final_report, widx, wpc, raw_results,
                   all_documents, calls, completedUnits, chunks, listenerVars,
                   mergeVars, envVars, serdeVars, sideVars>>
    /\ FailedStageCommit

\* model answers that json.loads accepts but that are not objects (a list,
\* a number, a string): data.get(...) raises AttributeError in the node
CriticNonObjectResponses == {"json_list", "json_scalar"}

CriticDataGetRaise ==
    /\ pc = "critic"
    /\ \E response \in CriticNonObjectResponses :
          Fail("critic_data_get",
               StageEvents(<<Ev("steps", "critique", "PENDING")>>))
    /\ stages' = Append(stages, "critic")
    /\ UNCHANGED <<deploy, mode, max_iterations, plan, documents, draft,
                   critique, iteration, final_report, widx, wpc, raw_results,
                   all_documents, calls, completedUnits, chunks, listenerVars,
                   mergeVars, envVars, serdeVars, sideVars>>
    /\ FailedStageCommit

(* ------------------------- conditional edge ---------------------------- *)
\* faulty variant: the critique flag is not consulted
ShouldContinueIgnoresFlag ==
    IF iteration < max_iterations THEN "planner" ELSE "__end__"

_should_continue ==
    IF critique.present /\ critique.needs_refinement
       /\ iteration < max_iterations
    THEN "planner"
    ELSE "__end__"

Route ==
    /\ pc = "route"
    /\ pc' = IF _should_continue = "planner" THEN "planner" ELSE "post"
    /\ UNCHANGED <<deploy, mode, max_iterations, plan, documents, draft,
                   critique, iteration, final_report, widx, wpc, raw_results,
                   all_documents, calls, completedUnits, emitted, status,
                   exc, chunks, stages, listenerVars, mergeVars,
                   envVars, serdeVars, sideVars>>
    /\ UNCHANGED <<conflicts, ckptVars>>

(* ------------------- after the graph: store and done ------------------- *)
\* store_report, _report_cache, update_credibility succeed; then `done`
PostOk ==
    /\ pc = "post"
    /\ report_stored' = TRUE
    /\ Complete(FinallyClause)
    /\ UNCHANGED <<deploy, mode, max_iterations, plan, documents, draft,
                   critique, iteration, final_report, widx, wpc, raw_results,
                   all_documents, calls, completedUnits, chunks, stages,
                   listenerVars, mergeVars, streamLen, database_url,
                   serdeVars, sideVars>>
    /\ UNCHANGED <<conflicts, ckptVars>>

\* the long-term store raises
PostRaise ==
    /\ pc = "post"
    /\ Fail("store_report", <<>>)
    /\ UNCHANGED <<deploy, mode, max_iterations, plan, documents, draft,
                   critique, iteration, final_report, widx, wpc, raw_results,
                   all_documents, calls, completedUnits, chunks, stages,
                   listenerVars, mergeVars, envVars, serdeVars, sideVars>>
    /\ UNCHANGED <<conflicts, ckptVars>>

(* ---------------------- SSE listener and registry ---------------------- *)
\* stream_research: the task must be in _tasks
ListenerAttach ==
    /\ LocalBackend /\ registered /\ listener = "none"
    /\ listener' = "open"
    /\ UNCHANGED <<runVars, conflicts, ckptVars, registered, popScheduled,
                   mergeVars,
                   serdeVars, sideVars, envVars>>

\* event_generator leaves its loop (disconnect, sentinel or terminal event);
\* its finally clause schedules the removal of the registry entry
ListenerClose ==
    /\ listener = "open"
    /\ listener' = "closed"
    /\ popScheduled' = TRUE
    /\ UNCHANGED <<runVars, conflicts, ckptVars, registered, mergeVars,
                   serdeVars, sideVars, envVars>>

\* call_later(300, lambda: _tasks.pop(task_id, None)) fires
RegistryPop ==
    /\ popScheduled
    /\ popScheduled' = FALSE
    /\ registered' = FALSE
    /\ UNCHANGED <<runVars, conflicts, ckptVars, listener, mergeVars,
                   serdeVars, sideVars, envVars>>

(* ------------------------------- Spec ---------------------------------- *)
Pipeline ==
    \/ SetupOk
    \/ SetupRaise
    \/ PlannerOk
    \/ PlannerParseFallback
    \/ PlannerRaise
    \/ PlannerShapeRaise
    \/ WorkerStart
    \/ \E outcome \in OutcomesNow : WorkerPrimary(outcome)
    \/ \E outcome \in OutcomesNow : WorkerFallback(outcome)
    \/ WorkerConvert
    \/ WorkerConvertRaise
    \/ WorkerReturn
    \/ SynthNoDocs
    \/ \E n \in 0..MaxTokens : Synthesize(n)
    \/ \E n \in 0..MaxTokens : SynthRaise(n)
    \/ SynthConflictRaise
    \/ Critic
    \/ CriticRaise
    \/ CriticDataGetRaise
    \/ Route
    \/ PostOk
    \/ PostRaise

Listener ==
    \/ ListenerAttach
    \/ ListenerClose
    \/ RegistryPop

Next ==
    \/ StartQuick
    \/ \E intent \in {"chat", "research"} : StartResearch(intent)
    \/ ChatChunk
    \/ ChatRaise
    \/ ChatDone
    \/ Pipeline
    \/ Listener

Spec == Init /\ [][Next]_vars

(* ------------------- merge of the per-unit lists ----------------------- *)
\* The worker's merge (all_documents.extend, then the operator.add reducer)
\* applied to the units' document lists in an arbitrary completion order.
MergeDocs ==
    {RetrievedDocument(RawRecord("arxiv_search", 1)),
     RetrievedDocument(RawRecord("serpapi_search", 1))}

UnitLists == {<<>>} \cup {<<d>> : d \in MergeDocs}
                    \cup {<<d, e>> : d \in MergeDocs, e \in MergeDocs}

CompletionOrders(n) ==
    {f \in [1..n -> 1..n] : \A i, j \in 1..n : i # j => f[i] # f[j]}

InitMergeSpec ==
    /\ InitRun({"api"}) /\ InitSerde /\ InitSide
    /\ mode = "research" /\ max_iterations = 1 /\ streamLen = 0
    /\ munits \in [1..MergeUnits -> UnitLists]
    /\ morder \in CompletionOrders(MergeUnits)
    /\ macc = <<>>
    /\ database_url = TRUE

\* one unit completes: all_documents.extend(documents)
MergeStep ==
    /\ morder # <<>>
    /\ macc' = Extend(macc, munits[Head(morder)])
    /\ morder' = Tail(morder)
    /\ UNCHANGED <<munits, runVars, conflicts, ckptVars, listenerVars,
                   serdeVars, sideVars, envVars>>

\* the node returns: the reducer merges all_documents into documents
MergeReturn ==
    /\ morder = <<>> /\ pc = "start"
    /\ documents' = DocumentsReducer(documents, macc)
    /\ pc' = "merged"
    /\ UNCHANGED <<deploy, mode, max_iterations, plan, draft, critique,
                   iteration, final_report, widx, wpc, raw_results,
                   all_documents, calls, completedUnits, emitted, status,
                   exc, chunks, stages, listenerVars, mergeVars,
                   envVars, serdeVars, sideVars>>
    /\ UNCHANGED <<conflicts, ckptVars>>

NextMerge == MergeStep \/ MergeReturn

SpecMerge == InitMergeSpec /\ [][NextMerge]_vars

NextLegacy ==
    \/ StartBackendApp
    \/ Pipeline
    \/ Listener

SpecLegacy == InitLegacy /\ [][NextLegacy]_vars

(* --------------------- checkpoint serializer --------------------------- *)
\* SafeCheckpointSerde applied to the values a checkpoint is made of: the
\* state dict, one channel value, or any nesting of dicts, lists and tuples.
Entry(k, v) == Py("entry", k, <<v>>)

\* faulty variant: nothing is recognised as a callable
IsCallableNever(obj) == FALSE

\* callable(obj)
IsCallable(obj) == obj.kind = "callable"

\* faulty variant: the test of the dict comprehension is inverted
KeepEntryInverted(e) == IsCallable(e.items[1])

\* `if not callable(v)` of the dict comprehension
KeepEntry(e) == ~IsCallable(e.items[1])

RECURSIVE _strip_callables(_)
_strip_callables(obj) ==
    CASE IsCallable(obj) -> PyNone
      [] obj.kind = "dict" ->
            LET kept == SelectSeq(obj.items, KeepEntry)
            IN  Py("dict", 0,
                   [i \in 1..Len(kept) |->
                       Entry(kept[i].val, _strip_callables(kept[i].items[1]))])
      [] obj.kind \in {"list", "tuple"} ->
            Py(obj.kind, 0,
               [i \in 1..Len(obj.items) |-> _strip_callables(obj.items[i])])
      [] OTHER -> obj

\* a callable anywhere in the nesting of dicts, lists and tuples
RECURSIVE HasCallable(_)
HasCallable(obj) ==
    \/ obj.kind = "callable"
    \/ \E i \in 1..Len(obj.items) : HasCallable(obj.items[i])

\* JsonPlusSerializer.dumps_typed: the msgpack encoding as a sequence of
\* numbers. 0: None; 1 v: a scalar; 2 v: a dataclass instance (extension
\* type); 3 n items: an array, which both lists and tuples become; 5 n
\* (key item)*: a map. A callable has no encoding (TypeError).
RECURSIVE Encode(_), EncodeAll(_)
Encode(obj) ==
    CASE obj.kind = "none"   -> <<0>>
      [] obj.kind = "scalar" -> <<1, obj.val>>
      [] obj.kind = "object" -> <<2, obj.val>>
      [] obj.kind \in {"list", "tuple"} ->
            <<3, Len(obj.items)>> \o EncodeAll(obj.items)
      [] obj.kind = "dict"   -> <<5, Len(obj.items)>> \o EncodeAll(obj.items)
      [] obj.kind = "entry"  -> <<obj.val>> \o Encode(obj.items[1])

EncodeAll(items) ==
    IF items = <<>> THEN <<>>
    ELSE Encode(Head(items)) \o EncodeAll(Tail(items))

\* JsonPlusSerializer.loads_typed: the value at the head of the bytes and
\* the bytes that follow it
RECURSIVE DecodeValue(_), DecodeItems(_, _, _), DecodeEntries(_, _, _)
DecodeValue(b) ==
    CASE b[1] = 0 -> [val |-> PyNone, rest |-> Tail(b)]
      [] b[1] = 1 -> [val |-> Py("scalar", b[2], <<>>), rest |-> Tail(Tail(b))]
      [] b[1] = 2 -> [val |-> Py("object", b[2], <<>>), rest |-> Tail(Tail(b))]
      [] b[1] = 3 ->
            LET r == DecodeItems(b[2], Tail(Tail(b)), <<>>)
            IN  [val |-> Py("list", 0, r.val), rest |-> r.rest]
      [] b[1] = 5 ->
            LET r == DecodeEntries(b[2], Tail(Tail(b)), <<>>)
            IN  [val |-> Py("dict", 0, r.val), rest |-> r.rest]

DecodeItems(n, b, acc) ==
    IF n = 0 THEN [val |-> acc, rest |-> b]
    ELSE LET r == DecodeValue(b)
         IN  DecodeItems(n - 1, r.rest, Append(acc, r.val))

DecodeEntries(n, b, acc) ==
    IF n = 0 THEN [val |-> acc, rest |-> b]
    ELSE LET r == DecodeValue(Tail(b))
         IN  DecodeEntries(n - 1, r.rest, Append(acc, Entry(Head(b), r.val)))

\* sloaded before loads_typed has run
NotLoaded == Py("unset", 0, <<>>)

\* the keys of the state dict
StateKey(name) ==
    CASE name = "documents"   -> 1
      [] name = "draft"       -> 2
      [] name = "iteration"   -> 3
      [] name = "_send_event" -> 4

\* state.get(name): the value under the key, "unset" when the key is absent
Field(obj, name) ==
    LET hits == SelectSeq(obj.items, LAMBDA e : e.val = StateKey(name))
    IN  IF hits = <<>> THEN NotLoaded ELSE hits[1].items[1]

\* the objects handed to the serializer
SeqsUpTo(S, n) == UNION {[1..k -> S] : k \in 0..n}

SerdeLeaves ==
    {PyNone, PyCallable, Py("scalar", 1, <<>>), Py("object", 1, <<>>)}

Containers(S) ==
    LET seqs == SeqsUpTo(S, MaxSerdeItems)
    IN  {Py(kind, 0, s) : kind \in {"list", "tuple"}, s \in seqs}
        \cup {Py("dict", 0, [i \in 1..Len(s) |-> Entry(i, s[i])]) : s \in seqs}

Nested(S) ==
    {Py(kind, 0, <<v>>) : kind \in {"list", "tuple"}, v \in S}
    \cup {Py("dict", 0, <<Entry(1, v)>>) : v \in S}

\* ResearchState dicts: a list of RetrievedDocument instances, a draft, an
\* iteration count and, for an entry point that puts it there, the callback
StateObjects ==
    {Py("dict", 0,
        <<Entry(StateKey("documents"),
                Py("list", 0,
                   [i \in 1..Len(docs) |-> Py("object", docs[i], <<>>)])),
          Entry(StateKey("draft"), Py("scalar", d, <<>>)),
          Entry(StateKey("iteration"), Py("scalar", it, <<>>))>> \o cb) :
        docs \in SeqsUpTo(1..2, MaxSerdeItems), d \in 0..1, it \in 0..1,
        cb \in {<<>>, <<Entry(StateKey("_send_event"), PyCallable)>>}}

SerdeObjects ==
    SerdeLeaves \cup Containers(SerdeLeaves)
                \cup Nested(Containers(SerdeLeaves)) \cup StateObjects

InitSerdeSpec ==
    /\ InitRun({"api"}) /\ InitMerge /\ InitSide
    /\ mode = "research" /\ max_iterations = 1 /\ streamLen = 0
    /\ sobj \in SerdeObjects
    /\ sdata = NoData
    /\ sloaded = NotLoaded
    /\ database_url = TRUE

\* SafeCheckpointSerde.dumps_typed
dumps_typed ==
    /\ sdata = NoData
    /\ LET clean == _strip_callables(sobj)
       IN  sdata' = IF HasCallable(clean)
                    THEN [type |-> "TypeError", bytes |-> <<>>]
                    ELSE [type |-> "msgpack", bytes |-> Encode(clean)]
    /\ UNCHANGED <<sobj, sloaded, runVars, conflicts, ckptVars, listenerVars,
                   mergeVars, sideVars, envVars>>

\* SafeCheckpointSerde.loads_typed
loads_typed ==
    /\ sdata.type = "msgpack" /\ sloaded = NotLoaded
    /\ sloaded' = DecodeValue(sdata.bytes).val
    /\ UNCHANGED <<sobj, sdata, runVars, conflicts, ckptVars, listenerVars,
                   mergeVars, sideVars, envVars>>

NextSerde == dumps_typed \/ loads_typed

SpecSerde == InitSerdeSpec /\ [][NextSerde]_vars

(* ----------------------- intent classification ------------------------- *)
\* classify_research_vs_chat. The query is one of: empty or whitespace
\* only; a text under 80 characters that starts with a greeting phrase; a
\* text of 80 characters or more that starts with one; any other text.
QueryKinds == {"empty", "greeting", "long_greeting", "other"}

\* the model call: the reply "research", the reply "chat", an empty reply,
\* a text with neither word, a text with both words; or an exception
ClassifierBackends == {"research", "chat", "empty", "neither", "both", "raise"}

\* faulty variant: every reply other than "chat" counts as research
ReplyIsNotChat(reply) == reply # "chat"

\* `"research" in content`, content being the stripped, lower-cased reply
ContainsResearch(reply) == reply \in {"research", "both"}

\* `not user_message or not user_message.strip()`
IsBlank(m) == m = "empty"

\* `len(text) < 80`, text being the stripped, lower-cased query
ShortText(m) == m \in {"greeting", "other"}

\* `re.match(r"^(hi|hey|hello|...)\b", text)`
GreetingPattern(m) == m \in {"greeting", "long_greeting"}

\* `len(text) < 80 and re.match(...)`
MatchesGreeting(m) == ShortText(m) /\ GreetingPattern(m)

\* faulty variant: the model is asked about every query
ShortCircuitNever(m) == FALSE

\* the two early returns of "chat"
ShortCircuit(m) == IsBlank(m) \/ MatchesGreeting(m)

\* faulty variant: a failed model call is answered with the chat path
OnClassifierFailureChat == "chat"

\* `except Exception: return "research"`
OnClassifierFailure == "research"

ClassifyShortCircuit ==
    /\ pc = "start" /\ mode = "research" /\ classified = "none"
    /\ ShortCircuit(user_message)
    /\ classified' = "chat"
    /\ UNCHANGED <<user_message, clsBackend, clsCalls, deliveryVars, run2Vars,
                   runVars, conflicts, ckptVars, listenerVars, mergeVars,
                   serdeVars, envVars>>

ClassifyInvoke ==
    /\ pc = "start" /\ mode = "research" /\ classified = "none"
    /\ ~ShortCircuit(user_message)
    /\ clsCalls' = clsCalls + 1
    /\ classified' = IF clsBackend = "raise" THEN OnClassifierFailure
                      ELSE IF ContainsResearch(clsBackend) THEN "research"
                      ELSE "chat"
    /\ UNCHANGED <<user_message, clsBackend, deliveryVars, run2Vars,
                   runVars, conflicts, ckptVars, listenerVars, mergeVars,
                   serdeVars, envVars>>

\* `if intent == "chat"`: the chat reply, otherwise the pipeline
StartClassified == classified # "none" /\ StartResearch(classified)

InitIntentSpec ==
    /\ InitRun({"api", "celery"}) /\ InitMerge /\ InitSerde
    /\ InitDelivery /\ InitRun2
    /\ max_iterations = 1
    /\ user_message \in QueryKinds
    /\ clsBackend \in ClassifierBackends
    /\ clsCalls = 0
    /\ classified = "none"

NextIntent ==
    \/ ClassifyShortCircuit
    \/ ClassifyInvoke
    \/ StartClassified
    \/ StartQuick
    \/ ChatChunk
    \/ ChatRaise
    \/ ChatDone
    \/ Pipeline
    \/ Listener

SpecIntent == InitIntentSpec /\ [][NextIntent]_vars

(* -------------------------- event delivery ----------------------------- *)
\* The SSE endpoint of one Run. Local backend: emitted is everything put
\* into the Run's asyncio.Queue and qpos counts the items taken out of it.
\* Celery backend: emitted is everything published on the Run's channel and
\* the subscription receives the messages published after qpos.

\* `for _ in range(50)`
MetaAttempts == 50

PingEvent == Ev("ping", "", "")

\* {"error": "Task not found or not started"}
NotFoundEvent == Ev("error", "", "Task not found or not started")

NonPing(evs) == SelectSeq(evs, LAMBDA e : e.type # "ping")

Pings(evs) == Len(evs) - Len(NonPing(evs))

\* faulty variant: the task starts publishing without having stored the
\* metadata record
MetaWrittenAssumed == TRUE

\* run_research_task: _set_task_meta precedes asyncio.run(...)
MetaWritten == metaSet

\* faulty variant: a ping is sent whether or not an event is waiting
QueueIdleAlways == TRUE

\* wait_for(queue.get(), 60) timed out / get_message() returned None
QueueIdle == qpos = Len(emitted)

\* faulty variant: the lookup loop has no last attempt
LookupExhaustedNever(n) == FALSE

\* the for loop has run its 50 iterations
LookupExhausted(n) == n = MetaAttempts

\* faulty variant: the endpoint keeps reading after a terminal event
IsTerminalNever(ev) == FALSE

\* `if event_type in ("done", "error"): break`
IsTerminal(ev) == ev.type \in {"done", "error"}

\* run_research_task: the metadata record is stored
SetTaskMeta ==
    /\ deploy = "celery" /\ pc = "start" /\ ~metaSet
    /\ metaSet' = TRUE
    /\ UNCHANGED <<cstate, attempts, qpos, delivered, intentVars, run2Vars,
                   runVars, conflicts, ckptVars, listenerVars, mergeVars,
                   serdeVars, envVars>>

\* _get_redis or setex raises: the task ends before its try block, with
\* nothing stored and nothing published
TaskMetaRaise ==
    /\ deploy = "celery" /\ pc = "start" /\ ~metaSet
    /\ pc' = "terminated"
    /\ exc' = "RuntimeError"
    /\ UNCHANGED <<deploy, mode, max_iterations, plan, documents, draft,
                   critique, iteration, final_report, widx, wpc, raw_results,
                   all_documents, calls, completedUnits, emitted, status,
                   chunks, stages, conflicts, ckptVars, listenerVars,
                   mergeVars, serdeVars, sideVars, envVars>>

\* the Run proper starts: at once in the local backend, after the metadata
\* record in the worker
RunStart ==
    /\ deploy = "celery" => MetaWritten
    /\ \/ StartQuick
       \/ StartResearch("chat")

\* stream_research, local backend: 404 unless the task is registered
StreamAttach ==
    /\ deploy = "api" /\ registered /\ cstate = "idle"
    /\ cstate' = "open"
    /\ listener' = "open"
    /\ UNCHANGED <<metaSet, attempts, qpos, delivered, intentVars, run2Vars,
                   runVars, conflicts, ckptVars, registered, popScheduled,
                   mergeVars, serdeVars, envVars>>

\* event_generator: request.is_disconnected(), then the finally clause
EventGeneratorDisconnect ==
    /\ deploy = "api" /\ cstate = "open"
    /\ cstate' = "disconnected"
    /\ listener' = "closed"
    /\ popScheduled' = TRUE
    /\ UNCHANGED <<metaSet, attempts, qpos, delivered, intentVars, run2Vars,
                   runVars, conflicts, ckptVars, registered,
                   mergeVars, serdeVars, envVars>>

\* event_generator: one item taken from the queue
EventGeneratorGet ==
    /\ deploy = "api" /\ cstate = "open" /\ qpos < Len(emitted)
    /\ qpos' = qpos + 1
    /\ LET event == emitted[qpos + 1] IN
          IF event = NoneSentinel
          THEN /\ delivered' = delivered
               /\ cstate' = "closed"
          ELSE /\ delivered' = Append(delivered, event)
               /\ cstate' = IF IsTerminal(event) THEN "closed" ELSE "open"
    /\ listener' = IF cstate' = "closed" THEN "closed" ELSE listener
    /\ popScheduled' = IF cstate' = "closed" THEN TRUE ELSE popScheduled
    /\ UNCHANGED <<metaSet, attempts, intentVars, run2Vars,
                   runVars, conflicts, ckptVars, registered,
                   mergeVars, serdeVars, envVars>>

\* event_generator: asyncio.TimeoutError after 60 s without an item
EventGeneratorPing ==
    /\ deploy = "api" /\ cstate = "open" /\ QueueIdle
    /\ Pings(delivered) < MaxPings
    /\ delivered' = Append(delivered, PingEvent)
    /\ UNCHANGED <<metaSet, cstate, attempts, qpos, intentVars, run2Vars,
                   runVars, conflicts, ckptVars, listenerVars,
                   mergeVars, serdeVars, envVars>>

\* stream_research, celery backend: the generator starts its lookup loop
RedisStreamStart ==
    /\ deploy = "celery" /\ cstate = "idle"
    /\ cstate' = "lookup"
    /\ UNCHANGED <<metaSet, attempts, qpos, delivered, intentVars, run2Vars,
                   runVars, conflicts, ckptVars, listenerVars,
                   mergeVars, serdeVars, envVars>>

\* _stream_from_redis: one iteration of the lookup loop finds no record;
\* after the last one the else clause yields the error and returns
RedisLookupMiss ==
    /\ cstate = "lookup" /\ ~metaSet /\ ~LookupExhausted(attempts)
    /\ attempts' = attempts + 1
    /\ IF LookupExhausted(attempts')
       THEN /\ delivered' = Append(delivered, NotFoundEvent)
            /\ cstate' = "closed"
       ELSE UNCHANGED <<delivered, cstate>>
    /\ UNCHANGED <<metaSet, qpos, intentVars, run2Vars,
                   runVars, conflicts, ckptVars, listenerVars,
                   mergeVars, serdeVars, envVars>>

\* _stream_from_redis: the record is there; subscribe to the channel. A
\* channel keeps nothing: what was published before is not received.
RedisLookupHit ==
    /\ cstate = "lookup" /\ metaSet /\ ~LookupExhausted(attempts)
    /\ attempts' = attempts + 1
    /\ cstate' = "subscribed"
    /\ qpos' = Len(emitted)
    /\ UNCHANGED <<metaSet, delivered, intentVars, run2Vars,
                   runVars, conflicts, ckptVars, listenerVars,
                   mergeVars, serdeVars, envVars>>

\* _stream_from_redis: request.is_disconnected()
RedisDisconnect ==
    /\ cstate = "subscribed"
    /\ cstate' = "disconnected"
    /\ UNCHANGED <<metaSet, attempts, qpos, delivered, intentVars, run2Vars,
                   runVars, conflicts, ckptVars, listenerVars,
                   mergeVars, serdeVars, envVars>>

\* _stream_from_redis: get_message returns a published event
RedisGet ==
    /\ cstate = "subscribed" /\ qpos < Len(emitted)
    /\ qpos' = qpos + 1
    /\ LET data == emitted[qpos + 1] IN
          /\ delivered' = Append(delivered, data)
          /\ cstate' = IF IsTerminal(data) THEN "closed" ELSE "subscribed"
    /\ UNCHANGED <<metaSet, attempts, intentVars, run2Vars,
                   runVars, conflicts, ckptVars, listenerVars,
                   mergeVars, serdeVars, envVars>>

\* _stream_from_redis: get_message returns None and 60 s have passed since
\* the last ping
RedisPing ==
    /\ cstate = "subscribed" /\ QueueIdle
    /\ Pings(delivered) < MaxPings
    /\ delivered' = Append(delivered, PingEvent)
    /\ UNCHANGED <<metaSet, cstate, attempts, qpos, intentVars, run2Vars,
                   runVars, conflicts, ckptVars, listenerVars,
                   mergeVars, serdeVars, envVars>>

InitDeliverySpec ==
    /\ InitRun({"api", "celery"}) /\ InitMerge /\ InitSerde
    /\ InitIntent /\ InitRun2 /\ InitDelivery
    /\ max_iterations = 1
    /\ database_url = TRUE

NextDelivery ==
    \/ SetTaskMeta
    \/ TaskMetaRaise
    \/ RunStart
    \/ ChatChunk
    \/ ChatRaise
    \/ ChatDone
    \/ StreamAttach
    \/ EventGeneratorDisconnect
    \/ EventGeneratorGet
    \/ EventGeneratorPing
    \/ RegistryPop
    \/ RedisStreamStart
    \/ RedisLookupMiss
    \/ RedisLookupHit
    \/ RedisDisconnect
    \/ RedisGet
    \/ RedisPing

SpecDelivery == InitDeliverySpec /\ [][NextDelivery]_vars

(* ------------------------- two Runs, one store ------------------------- *)
\* A second Run (its own task_id) submitted while or after the first one.
\* thread2 says whether its request carries the thread_id of the first Run
\* or another one; documents2 is the documents channel its graph starts with.

\* config = {"configurable": {"thread_id": thread_id}}: the checkpoint the
\* checkpointer holds for that thread_id
ThreadCheckpoint(thread) == IF thread = "same" THEN lastCkpt ELSE NoCheckpoint

\* start_research: the second task is created
SecondRunStart ==
    /\ pc2 = "start"
    /\ pc2' = "setup"
    /\ UNCHANGED <<thread2, documents2, intentVars, deliveryVars,
                   runVars, conflicts, ckptVars, listenerVars, mergeVars,
                   serdeVars, envVars>>

\* runnable.ainvoke(initial_state, config): the channels of the thread are
\* loaded and the input "documents": [] is applied through the channel's
\* reducer
SecondRunInvoke ==
    /\ pc2 = "setup"
    /\ pc2' = EntryPoint
    /\ documents2' = DocumentsReducer(ThreadCheckpoint(thread2).documents, <<>>)
    /\ UNCHANGED <<thread2, intentVars, deliveryVars,
                   runVars, conflicts, ckptVars, listenerVars, mergeVars,
                   serdeVars, envVars>>

\* initial_state, the input of ainvoke
InitialState ==
    [plan |-> <<>>, documents |-> <<>>, draft |-> <<>>,
     critique |-> NoCritique, iteration |-> 0, final_report |-> <<>>]

\* a channel declared without a reducer takes the value written last
LastValue(old, new) == new

\* the channels of the second Run when its Planner first executes
SecondRunState ==
    LET saved == ThreadCheckpoint(thread2) IN
    [plan         |-> LastValue(saved.plan, InitialState.plan),
     documents    |-> documents2,
     draft        |-> LastValue(saved.draft, InitialState.draft),
     critique     |-> LastValue(saved.critique, InitialState.critique),
     iteration    |-> LastValue(saved.iteration, InitialState.iteration),
     final_report |-> LastValue(saved.final_report, InitialState.final_report)]

InitTwoRuns ==
    /\ InitRun({"api"}) /\ InitMerge /\ InitSerde
    /\ InitIntent /\ InitDelivery
    /\ mode = "research"
    /\ max_iterations = 1
    /\ thread2 \in {"same", "other"}
    /\ pc2 = "start"
    /\ documents2 = <<>>
    /\ database_url = TRUE

NextTwoRuns ==
    \/ StartResearch("research")
    \/ Pipeline
    \/ SecondRunStart
    \/ SecondRunInvoke

SpecTwoRuns == InitTwoRuns /\ [][NextTwoRuns]_vars

(* --------------------------- progress of a Run ------------------------- *)
\* A pipeline Run of the api entry point whose every await returns or
\* raises: the task created by asyncio.create_task keeps being scheduled.
InitRunLive ==
    /\ InitRun({"api"}) /\ InitMerge /\ InitSerde /\ InitSide
    /\ mode = "research"
    /\ database_url = TRUE

RunStep ==
    \/ StartResearch("research")
    \/ Pipeline

NextRunLive == RunStep

SpecRunLive == InitRunLive /\ [][NextRunLive]_vars /\ WF_vars(RunStep)

\* The local backend with its one SSE endpoint: every kind of Run of the api
\* entry point, the task and the endpoint's generator both kept scheduled by
\* the event loop. The listener may disconnect at any time, or never.
InitLocalStream ==
    /\ InitRun({"api"}) /\ InitMerge /\ InitSerde /\ InitSide
    /\ max_iterations = 1
    /\ database_url = TRUE

LocalRunStep ==
    \/ StartQuick
    \/ \E intent \in {"chat", "research"} : StartResearch(intent)
    \/ ChatChunk
    \/ ChatRaise
    \/ ChatDone
    \/ Pipeline

NextLocalStream ==
    \/ LocalRunStep
    \/ StreamAttach
    \/ EventGeneratorDisconnect
    \/ EventGeneratorGet
    \/ EventGeneratorPing
    \/ RegistryPop

SpecLocalStream ==
    /\ InitLocalStream /\ [][NextLocalStream]_vars
    /\ WF_vars(LocalRunStep) /\ WF_vars(EventGeneratorGet)

\* GET /history/{report_id} with the id of the Run's result reference
get_report == IF report_stored THEN "ReportOut" ELSE "404"

(* ======================= properties of the Run ========================= *)
Range(seq) == {seq[k] : k \in 1..Len(seq)}

BagOf(seq) ==
    [d \in Range(seq) |-> Cardinality({k \in 1..Len(seq) : seq[k] = d})]

\* C1: in every reachable state of a pipeline Run iteration <= max_iterations,
\* and when the Critic stage has completed with iteration = max_iterations
\* the critique has needs_refinement = FALSE and final_report is the draft.
C1_IterationCap ==
    /\ iteration <= max_iterations
    /\ (pc = "route" /\ iteration = max_iterations)
          => /\ critique.present
             /\ critique.needs_refinement = FALSE
             /\ final_report = draft

\* the Critic completed at the cap of a Run that looped, on a model answer
\* that asked for refinement
C1_Witness ==
    /\ pc = "route" /\ iteration = max_iterations /\ iteration = 2
    /\ critique.overall_score = ParsedScore("refine")
    /\ final_report = draft /\ draft # <<>>

\* C2: after the Critic stage the Run goes back to the Planner iff
\* critique.needs_refinement and iteration < max_iterations; otherwise the
\* graph ends with final_report equal to the latest draft.
C2_RouteIff ==
    [][(pc = "route" /\ pc' # "route") =>
          /\ (pc' = "planner") <=>
                (critique.needs_refinement /\ iteration < max_iterations)
          /\ (pc' # "planner") => (pc' = "post" /\ final_report' = draft')]_vars

\* the graph ended at the cap although the model asked for refinement
C2_Witness ==
    /\ pc = "post" /\ iteration = max_iterations
    /\ critique.overall_score = ParsedScore("refine")
    /\ final_report = draft

\* C3: the stages run in the order planner, worker, synthesizer, critic,
\* repeated per iteration; the planner is first; the graph ends only after
\* the critic.
StageCycle == <<"planner", "worker", "synthesizer", "critic">>

C3_StageOrder ==
    /\ \A k \in 1..Len(stages) : stages[k] = StageCycle[((k - 1) % 4) + 1]
    /\ pc = "post" => (stages # <<>> /\ stages[Len(stages)] = "critic")
    /\ pc = "route" => (stages # <<>> /\ stages[Len(stages)] = "critic")

\* a second pass through all four stages
C3_Witness == Len(stages) = 8 /\ pc = "route"

\* C4 (as claimed): final_report is set iff the Run's status becomes
\* completed: completed implies final_report set, and a Run whose
\* final_report is set does not end failed.
C4_FinalReportIffCompleted ==
    /\ status = "completed" => final_report # <<>>
    /\ (pc = "terminated" /\ final_report # <<>>) => status # "failed"

\* C5: the document collection only grows: every step keeps each document
\* with at least its multiplicity.
C5_DocumentsGrow ==
    [][BagOf(documents) \sqsubseteq BagOf(documents')]_vars

\* a second Retriever pass added to a non-empty collection
C5_Witness ==
    /\ iteration = 2 /\ pc = "synthesizer" /\ Len(documents) = 2
    /\ documents[1].source # documents[2].source

\* the bag of all units' documents, whatever the order they complete in
RECURSIVE UnitsBag(_)
UnitsBag(k) == IF k = 0 THEN EmptyBag ELSE UnitsBag(k - 1) (+) BagOf(munits[k])

RECURSIVE PlanOrderList(_)
PlanOrderList(k) == IF k = 0 THEN <<>> ELSE PlanOrderList(k - 1) \o munits[k]

\* C6: the merge of the per-sub-query lists is order-insensitive: every
\* completion order yields the same multiset of documents.
C6_MergeOrderInsensitive ==
    pc = "merged" => BagOf(documents) = UnitsBag(MergeUnits)

\* a completion order whose listing differs from the plan-order listing
C6_Witness ==
    /\ pc = "merged"
    /\ Len(documents) >= 3
    /\ documents # PlanOrderList(MergeUnits)

\* C7: when the primary adapter returns no documents the fallback adapter is
\* invoked exactly once for that sub-query before the unit's documents are
\* converted and merged and before it reports completion; the fallback is
\* never invoked more than once per sub-query.
C7_FallbackOnce ==
    \A k \in 1..Len(calls) :
        /\ calls[k].fallback <= 1
        /\ calls[k].primary <= 1
        /\ (calls[k].primaryEmpty /\ (k \in completedUnits
                                      \/ (k = widx /\ wpc = "convert")))
              => calls[k].fallback = 1

\* a sub-query whose primary came back empty has completed after one
\* fallback call that found a document
C7_Witness ==
    \E k \in completedUnits :
        /\ calls[k].primaryEmpty /\ calls[k].fallback = 1
        /\ Len(all_documents) > 0

\* C8 (as claimed): a failure of one sub-query's adapter call (an exception,
\* a non-list value, a list whose items are not records) never aborts the
\* Run: the Retriever never ends the Run with an exception.
C8_AdapterFailureContained ==
    ~(pc = "terminated" /\ exc = "AttributeError")

\* C9 (as claimed): the `done` or `error` event is the last event of the
\* Run: nothing but the closing sentinel follows it.
C9_TerminalEventLast ==
    \A k \in 1..Len(emitted) :
        emitted[k].type \in {"done", "error"} =>
            \A j \in (k + 1)..Len(emitted) : emitted[j].type = "None"

\* C10 (as claimed): when a stage raises, the Run's status becomes failed,
\* exactly one `error` event with the tag agent_error and the failure
\* message is emitted, the sentinel follows it immediately, and no `done`
\* event is emitted. The status and the sentinel are those of the local
\* backend; on the Redis channel the error event is itself the closing
\* message and no status record exists.
StageExceptions == {"planner", "AttributeError", "synthesizer", "critic"}

C10_StageFailure ==
    (pc = "terminated" /\ exc \in StageExceptions) =>
        /\ LocalBackend => status = "failed"
        /\ Cardinality({k \in 1..Len(emitted) : emitted[k].type = "error"}) = 1
        /\ \A k \in 1..Len(emitted) :
              emitted[k].type = "error" =>
                  /\ emitted[k] = ErrorEvent(exc)
                  /\ LocalBackend => /\ k < Len(emitted)
                                      /\ emitted[k + 1] = NoneSentinel
        /\ \A k \in 1..Len(emitted) : emitted[k].type # "done"

\* C11 (as claimed): no Critic model response makes the Critic stage raise
\* (the Run never ends because of the response), and unparseable output
\* yields the accept-as-is critique: overall_score 0.7, needs_refinement
\* false.
C11_CriticResponseNeverFails ==
    /\ ~(pc = "terminated" /\ exc = "critic_data_get")
    /\ ParsedScore("nonjson") = 70
    /\ ~ParsedNeedsRefinement("nonjson")

\* C12 (as claimed): in research mode a query classified as conversational
\* emits only `answer` events followed by one `done` event, no `steps` or
\* `sources` event, runs no pipeline stage and leaves the plan and the
\* document collection untouched. Steps in which the generation backend
\* itself raises are not constrained.
C12_ChatEarlyExit ==
    [][(mode = "research" /\ pc = "chat" /\ exc' # "chat") =>
          /\ stages' = <<>> /\ documents' = <<>> /\ plan' = <<>>
          /\ iteration' = 0
          /\ \A k \in 1..Len(emitted') :
                /\ emitted'[k].type \in {"answer", "done", "None"}
                /\ emitted'[k].type = "done" =>
                      \A j \in 1..(k - 1) : emitted'[j].type = "answer"
          /\ pc' = "terminated" =>
                Cardinality({k \in 1..Len(emitted') :
                                emitted'[k].type = "done"}) = 1]_vars

\* C13: when the Retriever pass ends with an empty document collection the
\* Synthesizer skips generation: the draft becomes the fixed no-results
\* report, the conflict list is empty and the Critic is the next stage; the
\* Critic then runs on that draft and either finalizes it (final_report is
\* the no-results report) or asks for another pass below the cap.
C13_NoDocsShortCircuit ==
    [][/\ (pc = "synthesizer" /\ documents = <<>> /\ pc' # "synthesizer") =>
            /\ draft' = NoDocsReport
            /\ conflicts' = <<>>
            /\ pc' = "critic"
            /\ stages' = Append(stages, "synthesizer")
       /\ (pc = "critic" /\ draft = NoDocsReport /\ pc' = "route") =>
            /\ critique'.present
            /\ stages' = Append(stages, "critic")
            /\ \/ final_report' = NoDocsReport
               \/ critique'.needs_refinement /\ iteration < max_iterations]_vars

\* every adapter of a two-sub-query pass came back empty, the Synthesizer
\* produced the no-results report and the Critic finalized it
C13_Witness ==
    /\ pc = "route" /\ Len(plan) = 2 /\ documents = <<>>
    /\ draft = NoDocsReport /\ conflicts = <<>>
    /\ critique.present /\ final_report = NoDocsReport

\* C14: checkpoint round trip: serialising a state dict with the checkpoint
\* serializer (callables stripped) and deserialising the result yields a
\* state whose documents, draft and iteration equal those of the original.
C14_CheckpointRoundTrip ==
    (sobj \in StateObjects /\ sloaded # NotLoaded) =>
        \A name \in {"documents", "draft", "iteration"} :
            /\ Field(sloaded, name) # NotLoaded
            /\ Field(sloaded, name) = Field(sobj, name)

\* a state holding two documents and the callback went through the round
\* trip; the callback's key is gone from what was loaded
C14_Witness ==
    /\ sobj \in StateObjects /\ sloaded # NotLoaded
    /\ Len(Field(sobj, "documents").items) = 2
    /\ Field(sobj, "_send_event") = PyCallable
    /\ Field(sloaded, "_send_event") = NotLoaded

CompletedStages ==
    IF \/ exc \in NodeExceptions
       \/ pc = "worker" /\ wpc # "idle"
    THEN SubSeq(stages, 1, Len(stages) - 1)
    ELSE stages

C17_NoPartialCommit ==
    (pc = "terminated" /\ exc \in NodeExceptions) =>
        /\ ckptLog = <<"__start__">> \o CompletedStages
        /\ lastCkpt = Checkpoint(ckptLog[Len(ckptLog)], plan, documents,
                                 draft, conflicts, critique, iteration,
                                 final_report)
        /\ exc = "AttributeError" =>
              /\ lastCkpt.step = "planner"
              /\ \A k \in 1..Len(all_documents) :
                    all_documents[k] \in Range(documents)
                        \/ all_documents[k] \notin Range(lastCkpt.documents)
        /\ exc = "synthesizer" =>
              /\ lastCkpt.step = "worker"
              /\ lastCkpt.draft = draft /\ lastCkpt.conflicts = conflicts
        /\ exc \in {"critic", "critic_data_get"} =>
              /\ lastCkpt.step = "synthesizer"
              /\ lastCkpt.critique = critique

\* the Retriever failed on its second sub-query after it had gathered a
\* document from the first; the checkpoint is the Planner's and has no
\* document
C17_Witness ==
    /\ pc = "terminated" /\ exc = "AttributeError"
    /\ all_documents # <<>> /\ widx = 2
    /\ lastCkpt.step = "planner" /\ lastCkpt.documents = <<>>

\* the score table of the claim, in hundredths
CredibilityOf(source_type) ==
    CASE source_type = "academic"  -> 85
      [] source_type = "reference" -> 75
      [] source_type = "news"      -> 60
      [] OTHER                     -> 50

PlanCategories(p) == {p[k].source_type : k \in 1..Len(p)}

\* C19 (as claimed): every plan handed to the Retriever has 3 to 5
\* sub-queries spanning at least two evidence categories, or is the single
\* general sub-query echoing the raw query.
C19_PlanShape ==
    (pc = "worker" /\ wpc = "idle") =>
        \/ Len(plan) \in 3..5 /\ Cardinality(PlanCategories(plan)) >= 2
        \/ plan = FallbackPlan

\* C20 (as claimed): a Planner model response that cannot be parsed into a
\* list of sub-query records (non-JSON text, JSON of the wrong shape) gives
\* the single general sub-query echoing the raw query and never fails the
\* Run.
C20_PlannerParseFallback ==
    /\ ~(pc = "terminated" /\ exc = "planner_shape")
    /\ FallbackPlan = <<SubQuery(0, "general")>>

\* C21 (as claimed): conflict extraction never fails the Run: a missing,
\* malformed or unparsable trailing conflict block, valid JSON of another
\* shape included, yields an empty conflict list.
C21_ConflictExtractionContained ==
    /\ ~(pc = "terminated" /\ exc = "extract_conflicts")
    /\ <<>> \in _extract_conflicts(Tokens(MaxTokens))

\* C22: a query that is empty or whitespace, or that matches the greeting
\* pattern, is classified as conversational without any call of the
\* classifier's model.
C22_GreetingShortCircuit ==
    (mode = "research" /\ user_message \in {"empty", "greeting"}) =>
        /\ clsCalls = 0
        /\ classified \in {"none", "chat"}
        /\ pc \in {"start", "chat", "terminated"}
        /\ stages = <<>>

\* a greeting was answered on the chat path and the model was never asked,
\* although asking it would have said "research"
C22_Witness ==
    /\ mode = "research" /\ user_message = "greeting"
    /\ clsBackend = "research" /\ clsCalls = 0
    /\ classified = "chat" /\ pc = "terminated" /\ exc = "none"

\* C23: when the classifier's model call fails the query is treated as
\* evidential: the Run goes to the pipeline and never to the single-turn
\* reply.
C23_ClassifierFailsOpen ==
    (clsBackend = "raise" /\ clsCalls > 0) =>
        /\ classified = "research"
        /\ pc # "chat" /\ chunks = 0
        /\ \A k \in 1..Len(emitted) : emitted[k].type # "answer"
        /\ pc = "terminated" =>
              \/ stages # <<>>
              \/ exc = "checkpointer"

\* after a failed classification the Run went through all four stages
C23_Witness ==
    /\ clsBackend = "raise" /\ clsCalls = 1
    /\ pc = "route" /\ Len(stages) = 4

\* C24 (as claimed): a listener that disconnects while the Run is in
\* progress does not fail the Run: the Run ends with status completed or
\* failed, and a Run whose stages and report storage all succeeded ends
\* completed, with no exception caused by the disconnect.
C24_DisconnectNotFatal ==
    (deploy = "api" /\ listener = "closed" /\ pc = "terminated") =>
        /\ status \in {"completed", "failed"}
        /\ exc # "KeyError"

C26_MetaBeforeEvents ==
    deploy = "celery" =>
        /\ emitted # <<>> => metaSet
        /\ (cstate = "subscribed" \/ qpos > 0) => metaSet
        /\ (\E k \in 1..Len(delivered) :
               delivered[k] \notin {PingEvent, NotFoundEvent}) => metaSet

\* a subscriber received the whole stream of a Run of the worker
C26_Witness ==
    /\ deploy = "celery" /\ metaSet
    /\ Len(delivered) = 2
    /\ delivered[1].type = "answer"
    /\ delivered[2].type = "done"

\* C27: the subscriber looks the metadata record up at most 50 times; when
\* the 50th lookup finds nothing either, it sends one error event saying
\* the task was not found and ends without subscribing.
C27_BoundedMetaLookup ==
    /\ [](/\ attempts \in 0..MetaAttempts
          /\ cstate = "lookup" => (attempts < MetaAttempts /\ delivered = <<>>)
          /\ (\E k \in 1..Len(delivered) : delivered[k] = NotFoundEvent) =>
                /\ delivered = <<NotFoundEvent>>
                /\ cstate = "closed"
                /\ attempts = MetaAttempts
                /\ qpos = 0)
    /\ [][(cstate = "lookup" /\ attempts' = MetaAttempts) =>
             IF metaSet
             THEN cstate' = "subscribed" /\ delivered' = <<>>
             ELSE cstate' = "closed" /\ delivered' = <<NotFoundEvent>>]_vars

\* fifty lookups found nothing although the worker had started by then
C27_Witness ==
    /\ deploy = "celery" /\ attempts = MetaAttempts
    /\ cstate = "closed" /\ delivered = <<NotFoundEvent>>

\* C28: in the local backend the endpoint forwards the queued events of the
\* Run once each and in queue order, stops at the None sentinel or with the
\* first done or error event it forwards, and forwards nothing afterwards.
C28_LocalDrain ==
    /\ [](deploy = "api" =>
            LET fwd == NonPing(delivered) IN
            /\ Len(fwd) <= Len(emitted)
            /\ fwd = SubSeq(emitted, 1, Len(fwd))
            /\ \A k \in 1..Len(fwd) :
                  /\ fwd[k] # NoneSentinel
                  /\ IsTerminal(fwd[k]) => k = Len(fwd)
            /\ cstate = "open" => qpos = Len(fwd)
            /\ (fwd # <<>> /\ fwd[Len(fwd)].type \in {"done", "error"}) =>
                  cstate = "closed"
            /\ (cstate = "open" /\ qpos > 0) =>
                  emitted[qpos].type \notin {"None", "done", "error"})
    /\ [][(deploy = "api" /\ cstate \in {"closed", "disconnected"}) =>
             UNCHANGED <<cstate, delivered, qpos>>]_vars

\* the endpoint forwarded an answer and the done event and closed, leaving
\* the sentinels in the queue
C28_Witness ==
    /\ deploy = "api" /\ cstate = "closed"
    /\ NonPing(delivered) = <<Ev("answer", "", ""), Ev("done", "", "")>>
    /\ Len(emitted) = 4 /\ qpos = 2

\* the events of a Run as a caller is to see them: up to and including the
\* first done or error event
RunStream ==
    LET terminals == {k \in 1..Len(emitted) : emitted[k].type \in {"done", "error"}}
    IN  IF terminals = {} THEN SelectSeq(emitted, LAMBDA e : e # NoneSentinel)
        ELSE SubSeq(emitted, 1,
                    CHOOSE k \in terminals : \A j \in terminals : k <= j)

\* C29 (as claimed): a listener that asks for the stream after the Run was
\* submitted and does not disconnect gets, on either backend, the same
\* events: those of the Run from its first one to its terminal one.
C29_BackendsEquivalent ==
    /\ cstate = "closed" => NonPing(delivered) = RunStream
    /\ (cstate \in {"open", "subscribed"} /\ pc = "terminated"
           /\ qpos = Len(emitted)) => NonPing(delivered) = RunStream

\* C30 (as claimed): Runs with different run ids are independent, also when
\* they carry the same session id: the second Run's graph starts from its
\* own input (no documents) whatever the first Run has done.
C30_RunsIndependent ==
    pc2 = EntryPoint => documents2 = <<>>

\* the events of one type a Run has emitted
EventsOfType(type) == SelectSeq(emitted, LAMBDA e : e.type = type)

WorkerPasses == Len(SelectSeq(stages, LAMBDA s : s = "worker"))

\* C31 (as claimed): during the Retriever pass of a pipeline Run one sources
\* event is emitted for each sub-query as soon as its retrieval is complete,
\* before the stage returns.
C31_SourcesPerUnit ==
    (pc = "worker" /\ wpc # "idle" /\ WorkerPasses = 1) =>
        Len(EventsOfType("sources")) = Cardinality(completedUnits)

\* C32 (as claimed): during a Synthesizer pass every increment of the
\* generation backend is emitted as one answer event, so the answer events of
\* the pass add up to the draft the stage stores.
C32_AnswerStreamIsDraft ==
    (pc = "critic" /\ stages = <<"planner", "worker", "synthesizer">>
        /\ ~NoDocuments(documents)) =>
            Len(EventsOfType("answer")) = Len(draft)

\* C33 (as claimed): with no checkpoint backend configured a pipeline Run
\* fails at its start: no stage executes, an error event is emitted and the
\* Run's status becomes failed.
C33_NoCheckpointBackend ==
    (deploy = "api" /\ ~database_url) =>
        /\ stages = <<>>
        /\ pc \in {"start", "chat", "setup", "terminated"}
        /\ exc = "checkpointer" =>
              /\ ErrorEvent("checkpointer") \in Range(emitted)
              /\ status = "failed"

\* executions of the Planner that returned
PlannerRuns == Len(SelectSeq(CompletedStages, LAMBDA s : s = "planner"))

\* C34: a pipeline Run whose external calls all return or raise terminates:
\* the Planner runs at most max_iterations times, iteration counts its
\* executions, and the Run eventually ends, finalized (final_report set from
\* the draft) or failed (an exception recorded and an error event emitted).
C34_RunTerminates ==
    /\ [](/\ PlannerRuns <= max_iterations
          /\ iteration = PlannerRuns
          /\ pc = "terminated" =>
                \/ exc = "none" /\ final_report = draft
                \/ exc # "none" /\ \E k \in 1..Len(emitted) :
                                       emitted[k].type = "error")
    /\ <>(pc = "terminated")

\* a Run that used all its iterations and ended finalized
C34_Witness ==
    /\ pc = "terminated" /\ exc = "none"
    /\ max_iterations = MaxIterBound /\ PlannerRuns = MaxIterBound

\* C35: in the local backend every Run, whatever its outcome, ends by
\* putting the None sentinel on its queue, and it does end; the stream of
\* an attached listener is therefore eventually closed.
C35_SentinelAlways ==
    /\ [](pc = "terminated" =>
             (emitted # <<>> /\ emitted[Len(emitted)] = NoneSentinel))
    /\ <>(pc = "terminated")
    /\ (cstate = "open") ~> (cstate \in {"closed", "disconnected"})

\* a stage raised; the listener got the error event and its stream closed,
\* the sentinel being on the queue
C35_Witness ==
    /\ pc = "terminated" /\ exc \in NodeExceptions
    /\ emitted[Len(emitted)] = NoneSentinel
    /\ cstate = "closed"
    /\ delivered # <<>> /\ delivered[Len(delivered)].type = "error"

\* C36 (as claimed): a subscriber of the celery backend whose metadata
\* lookup succeeded and who stays connected receives the terminal event of
\* the Run whenever it subscribed: once the Run has ended, a subscriber
\* still reading has the done or error event yet to come.
C36_SubscriberGetsTerminal ==
    (deploy = "celery" /\ cstate = "subscribed" /\ pc = "terminated") =>
        \E k \in (qpos + 1)..Len(emitted) : emitted[k].type \in {"done", "error"}

\* C37 (as claimed): a pipeline Run starts from a reset state even when its
\* session id has a committed checkpoint: at its first Planner execution
\* every channel, the document collection included, has the value of the
\* Run's input.
C37_RunStartsReset ==
    (pc2 = EntryPoint /\ thread2 = "same") => SecondRunState = InitialState

\* C38 (as claimed): in the local backend, whenever the status of a Run is
\* completed, fetching the report by the id of its result reference
\* succeeds, for pipeline Runs and for single-turn Runs alike.
C38_CompletedReportResolves ==
    (deploy = "api" /\ status = "completed") => get_report = "ReportOut"

\* C39 (as claimed): a Run of mode quick never asks the classifier, never
\* executes a stage and never opens a checkpoint; unless its reply itself
\* fails it emits answer events and then done and nothing else. Stages
\* execute only in Runs of mode research classified as research.
C39_QuickOnlyChat ==
    /\ mode = "quick" =>
          /\ clsCalls = 0 /\ classified = "none"
          /\ stages = <<>> /\ ckptLog = <<>>
          /\ pc \in {"start", "chat", "terminated"}
          /\ exc # "chat" =>
                \A k \in 1..Len(emitted) :
                   /\ emitted[k].type \in {"answer", "done", "None"}
                   /\ emitted[k].type = "done" =>
                         \A j \in (k + 1)..Len(emitted) :
                            emitted[j] = NoneSentinel
    /\ stages # <<>> => (mode = "research" /\ classified = "research")

\* C40: when the classifier's model answers, the query is treated as
\* evidential exactly when the reply contains the word research; every
\* other reply sends the Run to the single-turn reply and keeps it out of
\* the pipeline.
C40_ReplyDecides ==
    (clsCalls > 0 /\ clsBackend # "raise") =>
        /\ classified = "research" <=> clsBackend \in {"research", "both"}
        /\ classified = "chat" <=> clsBackend \in {"chat", "empty", "neither"}
        /\ classified = "chat" =>
              (stages = <<>> /\ ckptLog = <<>>
                 /\ pc \in {"start", "chat", "terminated"})
        /\ classified = "research" => (pc # "chat" /\ chunks = 0)

\* a reply with neither word: the Run answered on the single-turn path
C40_Witness ==
    /\ clsBackend = "neither" /\ clsCalls = 1 /\ classified = "chat"
    /\ pc = "terminated" /\ exc = "none" /\ stages = <<>>

====
